---- MODULE Spec2Model ----
(***************************************************************************)
(* Model of the two command-line programs of the repository:              *)
(*   fill_data.py        the seeder (create_tables, fill_table, main)     *)
(*   test_operations.py  the benchmarker (test_* loops, test_table,       *)
(*                       print_summary, main)                             *)
(* The database engine is modelled as far as the programs observe it:     *)
(* per table the set of committed row ids, the identity sequence, and     *)
(* the rows written by the open transaction.  The value column is not     *)
(* tracked: no statement of either program reads it back.                 *)
(***************************************************************************)
EXTENDS Integers, Sequences, FiniteSets, TLC

VARIABLES
    \* ---- the database
    tables,         \* set of table numbers whose tableN exists
    indexes,        \* set of table numbers whose idx_tableN_value exists
    rows,           \* [Tables -> set of ids]: committed rows of each table
    seq,            \* [Tables -> Nat]: last value handed out by tableN_id_seq
    pending,        \* ids inserted by the open transaction, not yet committed
    \* ---- the state before the run (history, never written after Init)
    tables0, rows0, seq0,
    \* ---- control shared by the programs
    pc,             \* position of the running program
    tableIdx,       \* loop variable table_num of main
    raised,         \* "none", or the class of the exception that was raised
    \* ---- seeder (fill_data.py)
    start_from, skip_existing, batch_size,      \* arguments
    errorReported,  \* the validation message of main was printed
    logSetup,       \* logging.basicConfig was called, the log file exists
    connOpened,     \* psycopg2.connect was called
    createCalls,    \* number of create_tables calls made
    createErr,      \* error of the last create_tables call, or "none"
    current_count, total_inserted,              \* locals of fill_table
    batches,        \* batches committed by the running fill_table
    results,        \* [Tables -> elapsed | NoResult]: results dict of main
    fillLog,        \* [Tables -> "none" | "skipped" | "filling"]: first log line
    stmts,          \* [Tables -> Nat]: TRUNCATE + INSERT + COMMIT issued on it
    progress,       \* [Tables -> Nat]: progress lines logged for it
    failedBatch,    \* ids the batch that raised had tried to insert
    \* ---- benchmarker (test_operations.py)
    durs,           \* [1..n -> Nat]: what perf_counter measures for the i-th
                    \* operation of a timed loop
    opCount,        \* the count argument of the timed loops
    max_id,         \* local max_id of test_table
    cur,            \* the results dict test_table is building, or the
                    \* outcome of the last timed loop called on its own
    all_results,    \* list all_results of main
    summaryPrinted, \* print_summary ran to its end
    summaryTables,  \* table numbers print_summary printed a row for
    targets         \* ids the last timed loop addressed, one per operation

\* ---------------------------------------------------------------- bounds

\* RECORDS_COUNT (src/fill_data.py:29 sets 2_000_000), scaled down.
RECORDS_COUNT == 4

\* Largest batch_size argument of fill_table that is tried (default 10000).
MaxBatchSize == 5

\* The progress line period (100000 in src/fill_data.py:171), scaled down.
ProgressEvery == 2

\* create_tables calls made in a row by the schema specification.
MaxCreateCalls == 2

\* OPERATIONS_COUNT (src/test_operations.py:30 sets 1000), scaled down.
OPERATIONS_COUNT == 2

\* Largest duration, in clock ticks, perf_counter measures for one operation.
MaxDur == 1

\* Largest identity sequence value of a table before a benchmark run.
MaxInitSeq == 2

\* Tables holding rows before a benchmark run (the others are empty).
MaxPopulated == 1

\* Longest sample list of which every length is tried by the statistics
\* specification.
MaxSamples == 24

\* The tables table1..table7.
NumTables == 7

Tables == 1 .. NumTables

\* Tables whose value column gets a secondary index.
IndexedTables == {1, 5}

NoResult == -1

Min(a, b) == IF a < b THEN a ELSE b

MaxOf(S) == IF S = {} THEN 0 ELSE CHOOSE x \in S : \A y \in S : y <= x

\* ---------------------------------------------------------------- schema

\* CREATE TABLE tableN (...) without IF NOT EXISTS: a duplicate is an error.
CreateTable(s, t) ==
    IF s.err # "none" THEN s
    ELSE IF t \in s.tables THEN [s EXCEPT !.err = "duplicate_table"]
    ELSE [s EXCEPT !.tables = @ \cup {t}]

\* CREATE TABLE IF NOT EXISTS tableN (id SERIAL PRIMARY KEY, value ...).
\* A statement after a failed one of the same transaction is not executed.
CreateTableIfNotExists(s, t) ==
    IF s.err # "none" THEN s
    ELSE [s EXCEPT !.tables = @ \cup {t}]

\* CREATE INDEX IF NOT EXISTS idx_tableN_value ON tableN(value).
CreateIndexIfNotExists(s, t) ==
    IF s.err # "none" THEN s
    ELSE IF t \notin s.tables THEN [s EXCEPT !.err = "undefined_table"]
    ELSE [s EXCEPT !.indexes = @ \cup {t}]

\* create_tables: seven execute calls in one transaction, then commit.  An
\* error leaves the function before the commit, so nothing of it persists.
create_tables(tbls, idxs) ==
    LET s0 == [tables |-> tbls, indexes |-> idxs, err |-> "none"]
        s1 == CreateIndexIfNotExists(CreateTableIfNotExists(s0, 1), 1)
        s2 == CreateTableIfNotExists(s1, 2)
        s3 == CreateTableIfNotExists(s2, 3)
        s4 == CreateTableIfNotExists(s3, 4)
        s5 == CreateIndexIfNotExists(CreateTableIfNotExists(s4, 5), 5)
        s6 == CreateTableIfNotExists(s5, 6)
        s7 == CreateTableIfNotExists(s6, 7)
    IN  IF s7.err = "none" THEN s7
        ELSE [tables |-> tbls, indexes |-> idxs, err |-> s7.err]

\* ---------------------------------------------------------------- engine

\* SELECT COUNT(*) FROM tableN, as get_table_count reads it.
get_table_count(t) == Cardinality(rows[t] \cup pending)

\* The ids the identity sequence hands to the next n inserted rows.
NextIds(last, n) == (last + 1) .. (last + n)

\* TRUNCATE TABLE tableN without RESTART IDENTITY: the sequence keeps its value.
Truncate(db, t) ==
    [db EXCEPT !.rows[t] = {}]

\* TRUNCATE TABLE tableN RESTART IDENTITY.
TruncateRestartIdentity(db, t) ==
    [db EXCEPT !.rows[t] = {}, !.seq[t] = 0]

dbVars == << tables, indexes, rows, seq, pending >>

histVars == << tables0, rows0, seq0 >>

argVars == << start_from, skip_existing, batch_size >>

mainVars == << errorReported, logSetup, connOpened >>

schemaVars == << createCalls, createErr >>

fillVars == << current_count, total_inserted, batches, results, fillLog,
               stmts, progress, failedBatch >>

benchVars == << durs, opCount, max_id, cur, all_results, summaryPrinted,
                summaryTables, targets >>

vars == << dbVars, histVars, pc, tableIdx, raised, argVars, mainVars,
           schemaVars, fillVars, benchVars >>

\* ---------------------------------------------------------------- seeder

\* States a table can be in before a seeder run: ids below the sequence
\* value, with holes where rows were deleted, up to one row above the target.
SeedContents ==
    UNION { { [rows |-> R, seq |-> s] : R \in SUBSET (1 .. s) } :
            s \in 0 .. (RECORDS_COUNT + 1) }

\* Values of the variables the benchmarker alone uses.
BenchIdle ==
    /\ durs = << >>
    /\ opCount = 0
    /\ max_id = 0
    /\ cur = [kind |-> "none"]
    /\ all_results = << >>
    /\ summaryPrinted = FALSE
    /\ summaryTables = {}
    /\ targets = << >>

\* Values of the variables the seeder alone uses, before main runs.
SeedIdle ==
    /\ errorReported = FALSE
    /\ logSetup = FALSE
    /\ connOpened = FALSE
    /\ createCalls = 0
    /\ createErr = "none"
    /\ current_count = 0
    /\ total_inserted = 0
    /\ batches = 0
    /\ results = [t \in Tables |-> NoResult]
    /\ fillLog = [t \in Tables |-> "none"]
    /\ stmts = [t \in Tables |-> 0]
    /\ progress = [t \in Tables |-> 0]
    /\ failedBatch = {}

\* The seeder starts: arguments parsed, the database as an earlier run or
\* nobody left it (every table in the same state c, or no table created yet).
InitSeed ==
    /\ \E c \in SeedContents, ex \in {{}, Tables} :
          /\ ex = {} => (c.rows = {} /\ c.seq = 0)
          /\ tables = ex
          /\ indexes = ex \cap IndexedTables
          /\ rows = [t \in Tables |-> c.rows]
          /\ seq = [t \in Tables |-> c.seq]
    /\ pending = {}
    /\ tables0 = tables /\ rows0 = rows /\ seq0 = seq
    /\ pc = "args"
    /\ tableIdx = 0
    /\ raised = "none"
    /\ start_from \in 0 .. (NumTables + 1)
    /\ skip_existing \in BOOLEAN
    /\ batch_size \in 1 .. MaxBatchSize
    /\ SeedIdle
    /\ BenchIdle

\* A range check that lets 0 through.
ValidStartFromOffByOne(s) == ~ (s < 0 \/ s > 7)

\* main: if start_from < 1 or start_from > 7: print error, return.
ValidStartFrom(s) == ~ (s < 1 \/ s > 7)

\* main, out-of-range --start-from: the message is printed and main returns.
MainValidateError ==
    /\ pc = "args"
    /\ ~ ValidStartFrom(start_from)
    /\ errorReported' = TRUE
    /\ pc' = "done"
    /\ UNCHANGED << dbVars, histVars, tableIdx, raised, argVars, logSetup,
                    connOpened, schemaVars, fillVars, benchVars >>

\* main, valid --start-from: the log file is set up and the header logged.
MainSetupLogging ==
    /\ pc = "args"
    /\ ValidStartFrom(start_from)
    /\ logSetup' = TRUE
    /\ pc' = "connect"
    /\ UNCHANGED << dbVars, histVars, tableIdx, raised, argVars,
                    errorReported, connOpened, schemaVars, fillVars,
                    benchVars >>

\* main: conn = psycopg2.connect(**DB_CONFIG) succeeds.
MainConnect ==
    /\ pc = "connect"
    /\ connOpened' = TRUE
    /\ pc' = "create"
    /\ UNCHANGED << dbVars, histVars, tableIdx, raised, argVars,
                    errorReported, logSetup, schemaVars, fillVars, benchVars >>

\* main: psycopg2.connect raises; no connection exists.
MainConnectError ==
    /\ pc = "connect"
    /\ raised' = "db"
    /\ pc' = "except"
    /\ UNCHANGED << dbVars, histVars, tableIdx, argVars, mainVars,
                    schemaVars, fillVars, benchVars >>

\* main: create_tables(conn, logger), then the loop over tables_config starts.
MainCreateTables ==
    /\ pc = "create"
    /\ LET r == create_tables(tables, indexes)
       IN  /\ tables' = r.tables
           /\ indexes' = r.indexes
           /\ createErr' = r.err
           /\ IF r.err = "none"
                 THEN /\ pc' = "loop"
                      /\ tableIdx' = 1
                      /\ raised' = raised
                 ELSE /\ pc' = "except"
                      /\ tableIdx' = tableIdx
                      /\ raised' = "db"
    /\ createCalls' = createCalls + 1
    /\ UNCHANGED << rows, seq, pending, histVars, argVars, mainVars,
                    fillVars, benchVars >>

\* main: if table_num < start_from: continue.
MainSkipTable ==
    /\ pc = "loop"
    /\ tableIdx \in Tables
    /\ tableIdx < start_from
    /\ tableIdx' = tableIdx + 1
    /\ UNCHANGED << dbVars, histVars, pc, raised, argVars, mainVars,
                    schemaVars, fillVars, benchVars >>

\* A skip test that lets a table holding exactly RECORDS_COUNT rows through.
ShouldSkipStrict(skip, count) == skip /\ count > RECORDS_COUNT

\* fill_table: if skip_if_exists: ... if current_count >= RECORDS_COUNT.
ShouldSkip(skip, count) == skip /\ count >= RECORDS_COUNT

\* A truncation test that clears a table whatever it holds.
TruncateAlways(count) == count >= 0

\* fill_table: if current_count == 0: TRUNCATE ... RESTART IDENTITY; commit.
TruncateNeeded(count) == count = 0

\* fill_table, skip branch: logs "already filled", closes the cursor, returns 0.
FillTableSkip ==
    /\ pc = "loop"
    /\ tableIdx \in Tables
    /\ tableIdx >= start_from
    /\ ShouldSkip(skip_existing, get_table_count(tableIdx))
    /\ fillLog' = [fillLog EXCEPT ![tableIdx] = "skipped"]
    /\ results' = [results EXCEPT ![tableIdx] = 0]
    /\ tableIdx' = tableIdx + 1
    /\ UNCHANGED << dbVars, histVars, pc, raised, argVars, mainVars,
                    schemaVars, current_count, total_inserted, batches,
                    stmts, progress, failedBatch, benchVars >>

\* fill_table up to the while loop: logs "filling", reads the row count,
\* resumes from it, and resets an empty table.
FillTableBegin ==
    /\ pc = "loop"
    /\ tableIdx \in Tables
    /\ tableIdx >= start_from
    /\ ~ ShouldSkip(skip_existing, get_table_count(tableIdx))
    /\ LET t == tableIdx
           count == get_table_count(t)
           db == IF TruncateNeeded(count)
                    THEN TruncateRestartIdentity([rows |-> rows, seq |-> seq], t)
                    ELSE [rows |-> rows, seq |-> seq]
       IN  /\ fillLog' = [fillLog EXCEPT ![t] = "filling"]
           /\ current_count' = count
           /\ total_inserted' = IF count > 0 THEN count ELSE 0
           /\ rows' = db.rows
           /\ seq' = db.seq
           /\ stmts' = [stmts EXCEPT ![t] =
                            IF TruncateNeeded(count) THEN @ + 2 ELSE @]
    /\ batches' = 0
    /\ pc' = "fill"
    /\ UNCHANGED << tables, indexes, pending, histVars, tableIdx, raised,
                    argVars, mainVars, schemaVars, results, progress,
                    failedBatch, benchVars >>

\* A batch that is always full, whatever is left to insert.
BatchCountUnclamped(total) == batch_size

\* fill_table: batch_count = min(batch_size, RECORDS_COUNT - total_inserted).
BatchCount(total) == Min(batch_size, RECORDS_COUNT - total)

\* A loop that leaves the commit to the end of the fill: nothing is committed
\* by the batch itself.
CommitDeferred(committed, written) == committed

\* conn.commit() after execute_batch: what the transaction wrote is persisted.
CommitBatch(committed, written) == committed \cup written

\* fill_table, one pass of the while loop that succeeds: batch_count rows
\* are inserted in one execute_batch page, committed, counted, and a
\* progress line follows when the running total is a multiple of the period.
FillTableBatch ==
    /\ pc = "fill"
    /\ total_inserted < RECORDS_COUNT
    /\ LET t == tableIdx
           n == BatchCount(total_inserted)
           written == pending \cup NextIds(seq[t], n)
           committed == CommitBatch(rows[t], written)
       IN  /\ rows' = [rows EXCEPT ![t] = committed]
           /\ pending' = written \ committed
           /\ seq' = [seq EXCEPT ![t] = @ + n]
           /\ total_inserted' = total_inserted + n
           /\ stmts' = [stmts EXCEPT ![t] = @ + n + 1]
           /\ progress' = [progress EXCEPT ![t] =
                              IF (total_inserted + n) % ProgressEvery = 0
                                 THEN @ + 1 ELSE @]
    /\ batches' = batches + 1
    /\ UNCHANGED << tables, indexes, histVars, pc, tableIdx, raised, argVars,
                    mainVars, schemaVars, current_count, results, fillLog,
                    failedBatch, benchVars >>

\* fill_table, one pass of the while loop in which the engine raises, in
\* execute_batch after f rows or in the commit (f = batch_count).  The
\* sequence keeps the values it handed out; the transaction is lost with
\* everything it wrote; the exception leaves fill_table and the loop of main.
FillTableBatchError ==
    /\ pc = "fill"
    /\ total_inserted < RECORDS_COUNT
    /\ LET t == tableIdx
           n == BatchCount(total_inserted)
       IN  \E f \in 0 .. n :
              /\ seq' = [seq EXCEPT ![t] = @ + f]
              /\ failedBatch' = NextIds(seq[t], n)
              /\ stmts' = [stmts EXCEPT ![t] = @ + 1]
    /\ pending' = {}
    /\ raised' = "db"
    /\ pc' = "except"
    /\ UNCHANGED << tables, indexes, rows, histVars, tableIdx, argVars,
                    mainVars, schemaVars, current_count, total_inserted,
                    batches, results, fillLog, progress, benchVars >>

\* fill_table after the while loop: logs the total and returns the elapsed
\* time (counted in batches); main stores it and moves to the next table.
FillTableEnd ==
    /\ pc = "fill"
    /\ ~ (total_inserted < RECORDS_COUNT)
    /\ results' = [results EXCEPT ![tableIdx] = batches]
    /\ tableIdx' = tableIdx + 1
    /\ pc' = "loop"
    /\ UNCHANGED << dbVars, histVars, raised, argVars, mainVars, schemaVars,
                    current_count, total_inserted, batches, fillLog, stmts,
                    progress, failedBatch, benchVars >>

\* main after the loop: conn.close() and the final statistics.
MainFinish ==
    /\ pc = "loop"
    /\ tableIdx > NumTables
    /\ pc' = "done"
    /\ UNCHANGED << dbVars, histVars, tableIdx, raised, argVars, mainVars,
                    schemaVars, fillVars, benchVars >>

\* main: except psycopg2.Error / except Exception: the error is logged and
\* main returns.
MainExcept ==
    /\ pc = "except"
    /\ pc' = "done"
    /\ UNCHANGED << dbVars, histVars, tableIdx, raised, argVars, mainVars,
                    schemaVars, fillVars, benchVars >>

NextSeed ==
    \/ MainValidateError
    \/ MainSetupLogging
    \/ MainConnect
    \/ MainConnectError
    \/ MainCreateTables
    \/ MainSkipTable
    \/ FillTableSkip
    \/ FillTableBegin
    \/ FillTableBatch
    \/ FillTableBatchError
    \/ FillTableEnd
    \/ MainFinish
    \/ MainExcept

SpecSeed == InitSeed /\ [][NextSeed]_vars

\* ---------------------------------------------------------------- schema runs

\* create_tables called on a database holding any subset of the seven
\* tables and of the two indexes (an index only with its table), the
\* existing tables holding rows.
InitSchema ==
    /\ tables \in SUBSET Tables
    /\ indexes \in SUBSET (tables \cap IndexedTables)
    /\ \E c \in SeedContents :
          /\ rows = [t \in Tables |-> IF t \in tables THEN c.rows ELSE {}]
          /\ seq = [t \in Tables |-> IF t \in tables THEN c.seq ELSE 0]
    /\ pending = {}
    /\ tables0 = tables /\ rows0 = rows /\ seq0 = seq
    /\ pc = "schema"
    /\ tableIdx = 0
    /\ raised = "none"
    /\ start_from = 1
    /\ skip_existing = FALSE
    /\ batch_size = 1
    /\ SeedIdle
    /\ BenchIdle

\* One call of create_tables(conn, logger) on an open connection.
CallCreateTables ==
    /\ pc = "schema"
    /\ createCalls < MaxCreateCalls
    /\ LET r == create_tables(tables, indexes)
       IN  /\ tables' = r.tables
           /\ indexes' = r.indexes
           /\ createErr' = r.err
           /\ raised' = IF r.err = "none" THEN raised ELSE "db"
           /\ pc' = IF r.err = "none" THEN pc ELSE "except"
    /\ createCalls' = createCalls + 1
    /\ UNCHANGED << rows, seq, pending, histVars, tableIdx, argVars,
                    mainVars, fillVars, benchVars >>

NextSchema ==
    \/ CallCreateTables

SpecSchema == InitSchema /\ [][NextSchema]_vars

\* ---------------------------------------------------------------- claims, seeder

\* fill_table was entered for table t and returned through its last line.
Filled(t) == fillLog[t] = "filling" /\ results[t] # NoResult

\* C1: a fill_table run that completes on a table holding k rows, 0 < k < N,
\* leaves every one of the k rows in place, adds exactly N - k rows (the
\* sequence advances by N - k) and ends with exactly N rows.
C1_ResumeCorrect ==
    \A t \in Tables :
        LET k == Cardinality(rows0[t])
        IN  (Filled(t) /\ 0 < k /\ k < RECORDS_COUNT) =>
               /\ rows0[t] \subseteq rows[t]
               /\ Cardinality(rows[t] \ rows0[t]) = RECORDS_COUNT - k
               /\ seq[t] - seq0[t] = RECORDS_COUNT - k
               /\ Cardinality(rows[t]) = RECORDS_COUNT

\* A completed run that resumed a table with a hole among its ids.
C1_Witness ==
    /\ pc = "done"
    /\ raised = "none"
    /\ \E t \in Tables :
          /\ Filled(t)
          /\ Cardinality(rows0[t]) \in 1 .. (RECORDS_COUNT - 1)
          /\ rows0[t] # 1 .. seq0[t]
          /\ results[t] >= 2

\* C2: on a table with 0 rows fill_table restarts the identity sequence
\* before its first batch, whatever value the sequence had, and a completed
\* run leaves exactly the rows with ids 1..N.
C2_EmptyReset ==
    /\ (pc = "fill" /\ current_count = 0 /\ batches = 0) =>
           (seq[tableIdx] = 0 /\ rows[tableIdx] = {})
    /\ \A t \in Tables :
           (Filled(t) /\ rows0[t] = {}) => rows[t] = 1 .. RECORDS_COUNT

\* A completed run on an empty table whose sequence was not at its start.
C2_Witness ==
    \E t \in Tables : Filled(t) /\ rows0[t] = {} /\ seq0[t] > 0

\* C3: fill_table called with skip_if_exists on a table holding at least N
\* rows takes the skip return: it logs the skip, returns 0 and issues no
\* TRUNCATE, INSERT or commit; rows and identity sequence stay as they were.
C3_SkipIfFilled ==
    \A t \in Tables :
        (fillLog[t] # "none" /\ skip_existing
            /\ Cardinality(rows0[t]) >= RECORDS_COUNT) =>
               /\ fillLog[t] = "skipped"
               /\ results[t] = 0
               /\ stmts[t] = 0
               /\ rows[t] = rows0[t]
               /\ seq[t] = seq0[t]
               /\ pending = {}

\* A table holding exactly N rows, with holes among its ids, was skipped.
C3_Witness ==
    \E t \in Tables :
        /\ fillLog[t] = "skipped"
        /\ Cardinality(rows0[t]) = RECORDS_COUNT
        /\ seq0[t] > RECORDS_COUNT

\* The engine raised in a batch of the fill of table tableIdx.
BatchFailed == pc \in {"except", "done"} /\ raised = "db" /\ failedBatch # {}

\* C4: when the engine raises in the j-th batch, fill_table issues nothing
\* more (no retry: the statements issued are those of the reset, of the
\* j-1 committed batches and the one that raised), the rows present before
\* the run and the rows of the j-1 committed batches are persisted, and no
\* row of the failed batch is.
C4_BatchFailure ==
    BatchFailed =>
        LET t == tableIdx
        IN  /\ rows0[t] \subseteq rows[t]
            /\ Cardinality(rows[t] \ rows0[t]) = batches * batch_size
            /\ Cardinality(rows[t]) = total_inserted
            /\ failedBatch \cap rows[t] = {}
            /\ pending = {}
            /\ stmts[t] = (IF current_count = 0 THEN 2 ELSE 0)
                            + batches * (batch_size + 1) + 1
            /\ results[t] = NoResult

\* A resumed fill failed after committing a batch, and main has returned.
C4_Witness ==
    /\ BatchFailed
    /\ pc = "done"
    /\ batches >= 1
    /\ current_count > 0

\* C6: with --start-from outside 1..7 main prints the error and returns: no
\* log file is set up, no connection is opened, create_tables and fill_table
\* are never called, and the database is as it was.
C6_ValidationNoSideEffects ==
    (start_from \notin 1 .. 7) =>
        /\ pc \in {"args", "done"}
        /\ pc = "done" => errorReported
        /\ ~ logSetup
        /\ ~ connOpened
        /\ createCalls = 0
        /\ \A t \in Tables : fillLog[t] = "none" /\ results[t] = NoResult
        /\ << tables, indexes, rows, seq, pending >>
             = << tables0, tables0 \cap IndexedTables, rows0, seq0, {} >>

\* main has returned on an out-of-range --start-from.
C6_Witness ==
    pc = "done" /\ errorReported /\ start_from \notin 1 .. 7

\* C7: create_tables, called once or twice on a database holding any subset
\* of the tables and indexes, raises no error and leaves exactly table1 ..
\* table7 with an index on table1 and table5 only; rows and sequences of the
\* tables that existed are unchanged.
C7_CreateIdempotent ==
    createCalls >= 1 =>
        /\ createErr = "none"
        /\ raised = "none"
        /\ tables = Tables
        /\ indexes = IndexedTables
        /\ rows = rows0
        /\ seq = seq0

\* The second call in a row, on a database that had some of the tables, one
\* index missing, and rows.
C7_Witness ==
    /\ createCalls = 2
    /\ tables0 # {} /\ tables0 # Tables
    /\ 1 \in tables0 /\ 5 \in tables0
    /\ \E t \in tables0 : rows0[t] # {}

\* ---------------------------------------------------------------- timed loops

RECURSIVE SumSeq(_)
\* sum(times)
SumSeq(sq) == IF sq = << >> THEN 0 ELSE Head(sq) + SumSeq(Tail(sq))

\* min(times), max(times) of a non-empty list
MinSeq(sq) == CHOOSE x \in { sq[i] : i \in 1 .. Len(sq) } :
                  \A i \in 1 .. Len(sq) : x <= sq[i]

MaxSeq(sq) == CHOOSE x \in { sq[i] : i \in 1 .. Len(sq) } :
                  \A i \in 1 .. Len(sq) : sq[i] <= x

\* A quotient a / b is kept as the pair << a, b >>.
RatEq(a, b) == a[1] * b[2] = b[1] * a[2]

\* A loop that leaves out the sample of its last operation.
SamplesButLast(n) == SubSeq(durs, 1, n - 1)

\* The samples a loop of n timed operations appends to times.
Samples(n) == SubSeq(durs, 1, n)

\* sorted(times): the stable ascending order.  The sample at position j
\* goes behind the smaller samples and the equal samples before it.
Sorted(sq) ==
    LET pos(j) == Cardinality({ i \in 1 .. Len(sq) : sq[i] < sq[j] })
                  + Cardinality({ i \in 1 .. j - 1 : sq[i] = sq[j] }) + 1
    IN  [p \in 1 .. Len(sq) |-> sq[CHOOSE j \in 1 .. Len(sq) : pos(j) = p]]

\* An index that rounds n * pct / 100 to the nearest integer.
PercentileIndexRounded(n, pct) == (n * pct + 50) \div 100

\* int(n * 0.95), int(n * 0.99): the double product n * (pct / 100),
\* truncated.  For every n from 1 to 200000 and pct 95, 99 the truncated
\* double product is the integer quotient of n * pct by 100.
PercentileIndex(n, pct) == (n * pct) \div 100

\* sorted_times[idx] if idx < n else sorted_times[-1], 0-based idx.
Percentile(sorted_times, idx) ==
    IF idx < Len(sorted_times)
       THEN sorted_times[idx + 1]
       ELSE sorted_times[Len(sorted_times)]

\* The sum of sq[lo..hi], by halves.
RECURSIVE SumRange(_, _, _)
SumRange(sq, lo, hi) ==
    IF lo > hi THEN 0
    ELSE IF lo = hi THEN sq[lo]
    ELSE LET mid == (lo + hi) \div 2
         IN  SumRange(sq, lo, mid) + SumRange(sq, mid + 1, hi)

SumOf(sq) == SumRange(sq, 1, Len(sq))

SumSquares(sq) == SumRange([i \in 1 .. Len(sq) |-> sq[i] * sq[i]], 1, Len(sq))

\* calculate_extended_stats: {} for an empty list; else the two nearest-rank
\* percentiles, the sample standard deviation (kept as its square, the
\* quotient (n * sum x^2 - (sum x)^2) / (n * (n - 1)), 0 for n = 1) and
\* the coefficient of variation 100 * stddev / mean (kept as the pair of
\* the squared deviation and the mean, 0 when the mean is 0).
calculate_extended_stats(times) ==
    IF Len(times) = 0
       THEN [kind |-> "empty"]
       ELSE LET sorted_times == Sorted(times)
                n == Len(sorted_times)
                p95_idx == PercentileIndex(n, 95)
                p99_idx == PercentileIndex(n, 99)
                total == SumOf(times)
                var == IF n > 1
                          THEN << n * SumSquares(times) - total * total,
                                  n * (n - 1) >>
                          ELSE << 0, 1 >>
            IN  [kind |-> "ext",
                 p95_time |-> Percentile(sorted_times, p95_idx),
                 p99_time |-> Percentile(sorted_times, p99_idx),
                 stddev_sq |-> var,
                 cv_percent |-> IF total > 0
                                   THEN << var, << total, n >> >>
                                   ELSE << << 0, 1 >>, << 0, 1 >> >>]

\* The base_stats dict of the four test_ functions: statistics.mean raises
\* StatisticsError on an empty list; ops_per_sec divides the count ARGUMENT
\* by the sum of the samples; the extended statistics are added to the dict.
BaseStats(times, count) ==
    IF Len(times) = 0
       THEN [kind |-> "raise", exc |-> "StatisticsError"]
       ELSE [kind |-> "stats",
             n |-> Len(times),
             total_time |-> SumSeq(times),
             avg_time |-> << SumSeq(times), Len(times) >>,
             min_time |-> MinSeq(times),
             max_time |-> MaxSeq(times),
             ops_per_sec |-> IF SumSeq(times) > 0
                                THEN << count, SumSeq(times) >>
                                ELSE << 0, 1 >>,
             ext |-> calculate_extended_stats(times)]

\* SELECT MAX(id) FROM tableN; result if result else 0.
get_max_id(t) == MaxOf(rows[t])

\* get_table_stats, the row count of the size snapshot.
get_table_stats(t) == [record_count |-> Cardinality(rows[t])]

\* test_insert: count single-row inserts, each committed, then the stats.
test_insert(R, last, count) ==
    [rows |-> R \cup NextIds(last, count),
     seq |-> last + count,
     stats |-> BaseStats(Samples(count), count)]

\* random.randint(1, max_id) drawn once per operation of a loop of count
\* operations: the lists of ids the loop can address, one id per operation.
\* The order of the draws changes nothing, so each list is kept in
\* ascending order.  On an empty range the first draw raises and no
\* operation is made.
RandomIds(maxid, count) ==
    IF maxid < 1
       THEN { << >> }
       ELSE { ids \in [1 .. count -> 1 .. maxid] :
                 \A i \in 1 .. (count - 1) : ids[i] <= ids[i + 1] }

\* test_select_by_id: one timed lookup per drawn id; random.randint raises
\* ValueError on an empty range.
test_select_by_id(maxid, ids, count) ==
    IF count > 0 /\ maxid < 1
       THEN [kind |-> "raise", exc |-> "ValueError"]
       ELSE BaseStats(Samples(Len(ids)), count)

\* test_update_by_id: one timed update of the value per drawn id, each
\* committed; the set of rows is the same after it.
test_update_by_id(maxid, ids, count) ==
    IF count > 0 /\ maxid < 1
       THEN [kind |-> "raise", exc |-> "ValueError"]
       ELSE BaseStats(Samples(Len(ids)), count)

\* A selection that stops one id short of the limit.
IdsToDeleteShort(R, count) ==
    { S \in SUBSET R : Cardinality(S) = Min(count - 1, Cardinality(R)) }

\* SELECT id FROM tableN ORDER BY RANDOM() LIMIT count: the lists
\* ids_to_delete can be, as sets.
IdsToDelete(R, count) ==
    { S \in SUBSET R : Cardinality(S) = Min(count, Cardinality(R)) }

\* ids_to_delete as the list the loop walks; the order the query gives is
\* random and changes nothing, the ascending one stands for it.
RECURSIVE IdList(_)
IdList(S) ==
    IF S = {} THEN << >>
    ELSE LET m == CHOOSE x \in S : \A y \in S : x <= y
         IN  << m >> \o IdList(S \ {m})

\* test_delete_by_id once ids_to_delete is chosen: one delete and commit per
\* id, one sample per id, then the stats.
test_delete_by_id(R, ids, count) ==
    [rows |-> R \ ids,
     stats |-> BaseStats(Samples(Cardinality(ids)), count)]

\* ---------------------------------------------------------------- benchmarker

None == [kind |-> "None"]

\* States a table can be in before a benchmark run.
BenchContents ==
    UNION { { [rows |-> R, seq |-> s] : R \in SUBSET (1 .. s) } :
            s \in 0 .. MaxInitSeq }

\* The benchmarker starts on the seven tables, at most MaxPopulated of them
\* in state c, the others never written.  Every operation takes d ticks.
InitBench ==
    /\ tables = Tables
    /\ indexes = IndexedTables
    /\ \E P \in SUBSET Tables, c \in BenchContents :
          /\ Cardinality(P) <= MaxPopulated
          /\ rows = [t \in Tables |-> IF t \in P THEN c.rows ELSE {}]
          /\ seq = [t \in Tables |-> IF t \in P THEN c.seq ELSE 0]
    /\ pending = {}
    /\ tables0 = tables /\ rows0 = rows /\ seq0 = seq
    /\ pc = "bconnect"
    /\ tableIdx = 0
    /\ raised = "none"
    /\ start_from = 1
    /\ skip_existing = FALSE
    /\ batch_size = 1
    /\ SeedIdle
    /\ \E d \in 0 .. MaxDur : durs = [i \in 1 .. OPERATIONS_COUNT |-> d]
    /\ opCount = OPERATIONS_COUNT
    /\ max_id = 0
    /\ cur = None
    /\ all_results = << >>
    /\ summaryPrinted = FALSE
    /\ summaryTables = {}
    /\ targets = << >>

\* A handler inside the loop: the failed table gets an empty slot and the
\* loop goes on.
CaughtPerTable(idx, res) ==
    [pc |-> "bloop", tableIdx |-> idx + 1, all_results |-> Append(res, None)]

\* An exception raised in test_table leaves the for loop of main and the
\* rest of the try block for the except clauses.
Propagate(idx, res) ==
    [pc |-> "bexcept", tableIdx |-> idx, all_results |-> res]

\* main: psycopg2.connect succeeds; the loop over table_numbers starts.
BenchConnect ==
    /\ pc = "bconnect"
    /\ connOpened' = TRUE
    /\ tableIdx' = 1
    /\ pc' = "bloop"
    /\ UNCHANGED << dbVars, histVars, raised, argVars, errorReported,
                    logSetup, schemaVars, fillVars, benchVars >>

\* main: psycopg2.connect raises.
BenchConnectError ==
    /\ pc = "bconnect"
    /\ raised' = "db"
    /\ pc' = "bexcept"
    /\ UNCHANGED << dbVars, histVars, tableIdx, argVars, mainVars,
                    schemaVars, fillVars, benchVars >>

\* test_table up to the INSERT test: max id and size snapshot are read; an
\* empty table is reported and None returned, which main appends.
TestTableBegin ==
    /\ pc = "bloop"
    /\ tableIdx \in Tables
    /\ LET t == tableIdx
           m == get_max_id(t)
       IN  /\ max_id' = m
           /\ IF m = 0
                 THEN /\ all_results' = Append(all_results, None)
                      /\ tableIdx' = t + 1
                      /\ cur' = None
                      /\ pc' = pc
                 ELSE /\ cur' = [kind |-> "results", table |-> t,
                                 record_count |-> m,
                                 stats |-> get_table_stats(t),
                                 insert |-> None, select_by_id |-> None,
                                 update_by_id |-> None, delete_by_id |-> None]
                      /\ pc' = "insert"
                      /\ UNCHANGED << all_results, tableIdx >>
    /\ UNCHANGED << dbVars, histVars, raised, argVars, mainVars, schemaVars,
                    fillVars, durs, opCount, summaryPrinted, summaryTables,
                    targets >>

\* test_table: the INSERT test, then max_id is read again.
TestTableInsert ==
    /\ pc = "insert"
    /\ LET t == tableIdx
           r == test_insert(rows[t], seq[t], opCount)
       IN  /\ rows' = [rows EXCEPT ![t] = r.rows]
           /\ seq' = [seq EXCEPT ![t] = r.seq]
           /\ cur' = [cur EXCEPT !.insert = r.stats]
           /\ max_id' = MaxOf(r.rows)
    /\ pc' = "select"
    /\ UNCHANGED << tables, indexes, pending, histVars, tableIdx, raised,
                    argVars, mainVars, schemaVars, fillVars, durs, opCount,
                    all_results, summaryPrinted, summaryTables, targets >>

\* test_table: the SELECT by id test.
TestTableSelect ==
    /\ pc = "select"
    /\ \E ids \in RandomIds(max_id, opCount) :
          /\ targets' = ids
          /\ cur' = [cur EXCEPT !.select_by_id =
                                    test_select_by_id(max_id, ids, opCount)]
    /\ pc' = "selected"
    /\ UNCHANGED << dbVars, histVars, tableIdx, raised, argVars, mainVars,
                    schemaVars, fillVars, durs, opCount, max_id, all_results,
                    summaryPrinted, summaryTables >>

\* test_table: test_select_by_id has returned, its ids are gone; the
\* figures of the SELECT test are logged.
TestTableSelectLog ==
    /\ pc = "selected"
    /\ targets' = << >>
    /\ pc' = "update"
    /\ UNCHANGED << dbVars, histVars, tableIdx, raised, argVars, mainVars,
                    schemaVars, fillVars, durs, opCount, max_id, cur,
                    all_results, summaryPrinted, summaryTables >>

\* test_table: the UPDATE by id test.
TestTableUpdate ==
    /\ pc = "update"
    /\ \E ids \in RandomIds(max_id, opCount) :
          /\ targets' = ids
          /\ cur' = [cur EXCEPT !.update_by_id =
                                    test_update_by_id(max_id, ids, opCount)]
    /\ pc' = "updated"
    /\ UNCHANGED << dbVars, histVars, tableIdx, raised, argVars, mainVars,
                    schemaVars, fillVars, durs, opCount, max_id, all_results,
                    summaryPrinted, summaryTables >>

\* test_table: test_update_by_id has returned, its ids are gone; the
\* figures of the UPDATE test are logged.
TestTableUpdateLog ==
    /\ pc = "updated"
    /\ targets' = << >>
    /\ pc' = "delete"
    /\ UNCHANGED << dbVars, histVars, tableIdx, raised, argVars, mainVars,
                    schemaVars, fillVars, durs, opCount, max_id, cur,
                    all_results, summaryPrinted, summaryTables >>

\* test_table: the DELETE by id test; the results dict is returned and main
\* appends it to all_results.
TestTableDelete ==
    /\ pc = "delete"
    /\ \E ids \in IdsToDelete(rows[tableIdx], opCount) :
          LET t == tableIdx
              r == test_delete_by_id(rows[t], ids, opCount)
              done == [cur EXCEPT !.delete_by_id = r.stats]
          IN  /\ rows' = [rows EXCEPT ![t] = r.rows]
              /\ targets' = IdList(ids)
              /\ cur' = done
              /\ IF r.stats.kind = "raise"
                    THEN LET p == Propagate(t, all_results)
                         IN  /\ raised' = r.stats.exc
                             /\ pc' = p.pc
                             /\ tableIdx' = p.tableIdx
                             /\ all_results' = p.all_results
                    ELSE /\ raised' = raised
                         /\ pc' = "bloop"
                         /\ tableIdx' = t + 1
                         /\ all_results' = Append(all_results, done)
    /\ UNCHANGED << tables, indexes, seq, pending, histVars, argVars,
                    mainVars, schemaVars, fillVars, durs, opCount, max_id,
                    summaryPrinted, summaryTables >>

\* The engine raises in a statement of test_table: reading max id or the
\* sizes, or the i-th operation of a timed loop, the operations before it
\* committed.  The exception leaves the loop and its list of ids with it.
TestTableRaise ==
    /\ \/ pc = "bloop" /\ tableIdx \in Tables
       \/ pc \in {"insert", "select", "update", "delete"}
    /\ LET t == tableIdx
       IN  \/ /\ pc = "insert"
              /\ \E i \in 0 .. (opCount - 1) :
                    /\ rows' = [rows EXCEPT ![t] = @ \cup NextIds(seq[t], i)]
                    /\ seq' = [seq EXCEPT ![t] = @ + i]
           \/ /\ pc = "delete"
              /\ \E ids \in IdsToDelete(rows[t], opCount) :
                    \E D \in SUBSET ids :
                       /\ D # ids
                       /\ rows' = [rows EXCEPT ![t] = @ \ D]
              /\ seq' = seq
           \/ /\ pc \notin {"insert", "delete"}
              /\ UNCHANGED << rows, seq >>
    /\ LET p == Propagate(tableIdx, all_results)
       IN  /\ pc' = p.pc
           /\ tableIdx' = p.tableIdx
           /\ all_results' = p.all_results
    /\ raised' = "db"
    /\ targets' = << >>
    /\ UNCHANGED << tables, indexes, pending, histVars, argVars, mainVars,
                    schemaVars, fillVars, durs, opCount, max_id, cur,
                    summaryPrinted, summaryTables >>

\* A summary that reads every slot as a results dict.
print_summary_unguarded(res) ==
    IF \E i \in 1 .. Len(res) : res[i] = None
       THEN [raised |-> "TypeError", tables |-> {}]
       ELSE [raised |-> "none",
             tables |-> { res[i].table : i \in 1 .. Len(res) }]

\* print_summary: in each of its three loops, if result is None: continue;
\* a row is printed for every other slot.
print_summary(res) ==
    [raised |-> "none",
     tables |-> { res[i].table : i \in { j \in 1 .. Len(res) : res[j] # None } }]

\* main after the loop: conn.close() and print_summary(all_results), inside
\* the try block.
BenchPrintSummary ==
    /\ pc = "bloop"
    /\ tableIdx > NumTables
    /\ LET r == print_summary(all_results)
       IN  IF r.raised = "none"
              THEN /\ summaryPrinted' = TRUE
                   /\ summaryTables' = r.tables
                   /\ raised' = raised
                   /\ pc' = "done"
              ELSE /\ raised' = r.raised
                   /\ pc' = "bexcept"
                   /\ UNCHANGED << summaryPrinted, summaryTables >>
    /\ UNCHANGED << dbVars, histVars, tableIdx, argVars, mainVars,
                    schemaVars, fillVars, durs, opCount, max_id, cur,
                    all_results, targets >>

\* main: except psycopg2.Error / except Exception: the error is logged.
BenchExcept ==
    /\ pc = "bexcept"
    /\ pc' = "done"
    /\ UNCHANGED << dbVars, histVars, tableIdx, raised, argVars, mainVars,
                    schemaVars, fillVars, benchVars >>

NextBench ==
    \/ BenchConnect
    \/ BenchConnectError
    \/ TestTableBegin
    \/ TestTableInsert
    \/ TestTableSelect
    \/ TestTableSelectLog
    \/ TestTableUpdate
    \/ TestTableUpdateLog
    \/ TestTableDelete
    \/ TestTableRaise
    \/ BenchPrintSummary
    \/ BenchExcept

SpecBench == InitBench /\ [][NextBench]_vars

\* ---------------------------------------------------------------- timed loops alone

\* One timed loop called on table1 in any state, with any count from 1 to
\* OPERATIONS_COUNT and any durations of the single operations.
InitOps ==
    /\ tables = Tables
    /\ indexes = IndexedTables
    /\ \E c \in BenchContents :
          /\ rows = [t \in Tables |-> IF t = 1 THEN c.rows ELSE {}]
          /\ seq = [t \in Tables |-> IF t = 1 THEN c.seq ELSE 0]
    /\ pending = {}
    /\ tables0 = tables /\ rows0 = rows /\ seq0 = seq
    /\ pc = "ops"
    /\ tableIdx = 1
    /\ raised = "none"
    /\ start_from = 1
    /\ skip_existing = FALSE
    /\ batch_size = 1
    /\ SeedIdle
    /\ durs \in [1 .. OPERATIONS_COUNT -> 0 .. MaxDur]
    /\ opCount \in 1 .. OPERATIONS_COUNT
    /\ max_id = 0
    /\ cur = None
    /\ all_results = << >>
    /\ summaryPrinted = FALSE
    /\ summaryTables = {}
    /\ targets = << >>

\* test_insert(conn, 'table1', min_len, max_len, count)
CallTestInsert ==
    /\ pc = "ops"
    /\ LET r == test_insert(rows[1], seq[1], opCount)
       IN  /\ rows' = [rows EXCEPT ![1] = r.rows]
           /\ seq' = [seq EXCEPT ![1] = r.seq]
           /\ cur' = [kind |-> "op", op |-> "insert", stats |-> r.stats]
    /\ pc' = "opdone"
    /\ UNCHANGED << tables, indexes, pending, histVars, tableIdx, raised,
                    argVars, mainVars, schemaVars, fillVars, durs, opCount,
                    max_id, all_results, summaryPrinted, summaryTables,
                    targets >>

\* test_select_by_id(conn, 'table1', get_max_id(conn, 'table1'), count)
CallTestSelect ==
    /\ pc = "ops"
    /\ max_id' = get_max_id(1)
    /\ \E ids \in RandomIds(get_max_id(1), opCount) :
          /\ targets' = ids
          /\ cur' = [kind |-> "op", op |-> "select_by_id",
                     stats |-> test_select_by_id(get_max_id(1), ids, opCount)]
    /\ pc' = "opdone"
    /\ UNCHANGED << dbVars, histVars, tableIdx, raised, argVars, mainVars,
                    schemaVars, fillVars, durs, opCount, all_results,
                    summaryPrinted, summaryTables >>

\* test_update_by_id(conn, 'table1', min_len, max_len, max_id, count)
CallTestUpdate ==
    /\ pc = "ops"
    /\ max_id' = get_max_id(1)
    /\ \E ids \in RandomIds(get_max_id(1), opCount) :
          /\ targets' = ids
          /\ cur' = [kind |-> "op", op |-> "update_by_id",
                     stats |-> test_update_by_id(get_max_id(1), ids, opCount)]
    /\ pc' = "opdone"
    /\ UNCHANGED << dbVars, histVars, tableIdx, raised, argVars, mainVars,
                    schemaVars, fillVars, durs, opCount, all_results,
                    summaryPrinted, summaryTables >>

\* test_delete_by_id(conn, 'table1', max_id, count)
CallTestDelete ==
    /\ pc = "ops"
    /\ max_id' = get_max_id(1)
    /\ \E ids \in IdsToDelete(rows[1], opCount) :
          LET r == test_delete_by_id(rows[1], ids, opCount)
          IN  /\ rows' = [rows EXCEPT ![1] = r.rows]
              /\ targets' = IdList(ids)
              /\ cur' = [kind |-> "op", op |-> "delete_by_id",
                         stats |-> r.stats]
    /\ pc' = "opdone"
    /\ UNCHANGED << tables, indexes, seq, pending, histVars, tableIdx,
                    raised, argVars, mainVars, schemaVars, fillVars, durs,
                    opCount, all_results, summaryPrinted, summaryTables >>

NextOps ==
    \/ CallTestInsert
    \/ CallTestSelect
    \/ CallTestUpdate
    \/ CallTestDelete

SpecOps == InitOps /\ [][NextOps]_vars

\* ---------------------------------------------------------------- claims, benchmarker

\* test_table returned for table t (its slot of all_results is filled).
Benchmarked(t) == Len(all_results) >= t

\* The ids the INSERT test of a pass gives to its rows in table t.
InsertedIds(t) == NextIds(seq0[t], opCount)

\* C5: for a table holding at least one row when test_table starts, the
\* INSERT test adds C rows, the SELECT and UPDATE tests leave the rows as
\* they are, the DELETE test removes exactly C rows, and the row count after
\* the pass is the row count before it.
C5_RowCountConserved ==
    /\ (pc \in {"select", "selected", "update", "updated", "delete"}) =>
           rows[tableIdx] = rows0[tableIdx] \cup InsertedIds(tableIdx)
    /\ \A t \in Tables :
           (Benchmarked(t) /\ rows0[t] # {}) =>
               /\ all_results[t] # None
               /\ seq[t] - seq0[t] = opCount
               /\ rows[t] \subseteq rows0[t] \cup InsertedIds(t)
               /\ Cardinality((rows0[t] \cup InsertedIds(t)) \ rows[t]) = opCount
               /\ Cardinality(rows[t]) = Cardinality(rows0[t])

\* A pass completed on a table that held fewer than C rows, with a hole
\* among its ids, and lost one of its old rows to the DELETE test.
C5_Witness ==
    \E t \in Tables :
        /\ Benchmarked(t)
        /\ rows0[t] # {}
        /\ Cardinality(rows0[t]) < opCount
        /\ rows0[t] # 1 .. seq0[t]
        /\ ~ (rows0[t] \subseteq rows[t])

\* C8: print_summary runs only after test_table returned for all seven
\* tables; once an exception is raised in the run, it never runs.
C8_SummaryOnlyIfComplete ==
    /\ summaryPrinted => (raised = "none" /\ Len(all_results) = NumTables)
    /\ raised # "none" => ~ summaryPrinted

\* A table's benchmark raised after an earlier table's results had been
\* collected, and main has returned without the summary.
C8_Witness ==
    /\ pc = "done"
    /\ raised = "db"
    /\ ~ summaryPrinted
    /\ tableIdx \in Tables
    /\ \E i \in 1 .. Len(all_results) : all_results[i] # None

\* Main has returned from a run in which the benchmark of table tableIdx
\* raised after results had been collected for an earlier table.
TableFailedAfterResults ==
    /\ pc = "done"
    /\ raised # "none"
    /\ tableIdx \in Tables
    /\ \E i \in 1 .. Len(all_results) : all_results[i] # None

\* C9 as stated: when a table's benchmark fails, the summary is printed
\* without that table's slot and with the results of the earlier tables.
C9_FailureDegradesSummary ==
    TableFailedAfterResults =>
        /\ summaryPrinted
        /\ tableIdx \notin summaryTables
        /\ \A i \in 1 .. Len(all_results) :
               all_results[i] # None => all_results[i].table \in summaryTables

\* C9 amended: a table that is empty, for which test_table returns None
\* without raising, degrades the summary rather than suppressing it: when
\* test_table has returned for all seven tables the summary is printed, the
\* slot of every empty table is skipped, the results collected for the other
\* tables are reported, and no table is benchmarked a second time; when
\* test_table raised for a table, no summary is printed.
C9_EmptyTableDegradesSummary ==
    /\ \A t \in Tables : seq[t] - seq0[t] <= opCount
    /\ (pc = "done" /\ Len(all_results) < NumTables) => ~ summaryPrinted
    /\ (pc = "done" /\ Len(all_results) = NumTables) =>
           /\ summaryPrinted
           /\ summaryTables = { t \in Tables : rows0[t] # {} }
           /\ \A t \in Tables :
                  /\ (all_results[t] = None) <=> (rows0[t] = {})
                  /\ all_results[t] # None => all_results[t].table = t

\* The summary was printed with an empty slot after a reported table.
C9_Witness ==
    /\ summaryPrinted
    /\ \E i, j \in 1 .. Len(all_results) :
          /\ i < j
          /\ all_results[i] # None
          /\ all_results[j] = None
          /\ summaryTables = {i}

\* C10: the ops_per_sec a timed loop reports is n / total for the n samples
\* it collected and their sum total, and 0 when total is 0.
C10_OpsPerSecond ==
    (pc = "opdone" /\ cur.stats.kind = "stats") =>
        LET st == cur.stats
        IN  IF st.total_time = 0
               THEN RatEq(st.ops_per_sec, << 0, 1 >>)
               ELSE RatEq(st.ops_per_sec, << st.n, st.total_time >>)

\* ---------------------------------------------------------------- statistics alone

\* Sample lists above MaxSamples that are tried: the lengths around which
\* the 99th percentile leaves the last element.
BigLens == {100, 101, 150}

\* The list of length n that starts at off and steps by k modulo m.
Stepped(n, k, off, m) == [i \in 1 .. n |-> ((i - 1) * k + off) % m]

\* calculate_extended_stats called on a list of any length up to MaxSamples
\* or in BigLens, ascending, descending or shuffled, with or without equal
\* samples.
InitStats ==
    /\ tables = Tables
    /\ indexes = IndexedTables
    /\ rows = [t \in Tables |-> {}]
    /\ seq = [t \in Tables |-> 0]
    /\ pending = {}
    /\ tables0 = tables /\ rows0 = rows /\ seq0 = seq
    /\ pc = "stats"
    /\ tableIdx = 0
    /\ raised = "none"
    /\ start_from = 1
    /\ skip_existing = FALSE
    /\ batch_size = 1
    /\ SeedIdle
    /\ \E n \in (1 .. MaxSamples) \cup BigLens :
          \E k \in {1, n - 1, 7}, m \in {n, 3} :
             durs = Stepped(n, k, 0, m)
    /\ opCount = 0
    /\ max_id = 0
    /\ cur = None
    /\ all_results = << >>
    /\ summaryPrinted = FALSE
    /\ summaryTables = {}
    /\ targets = << >>

\* calculate_extended_stats(times)
CallExtendedStats ==
    /\ pc = "stats"
    /\ cur' = calculate_extended_stats(durs)
    /\ pc' = "statsdone"
    /\ UNCHANGED << dbVars, histVars, tableIdx, raised, argVars, mainVars,
                    schemaVars, fillVars, durs, opCount, max_id, all_results,
                    summaryPrinted, summaryTables, targets >>

NextStats ==
    \/ CallExtendedStats

SpecStats == InitStats /\ [][NextStats]_vars

\* ---------------------------------------------------------------- claims, statistics

\* x is the element at 0-based index k of the ascending order of times: x
\* is a sample, at most k samples are smaller and more than k are not larger.
IsAtRank(times, x, k) ==
    /\ \E i \in 1 .. Len(times) : times[i] = x
    /\ Cardinality({ i \in 1 .. Len(times) : times[i] < x }) <= k
    /\ Cardinality({ i \in 1 .. Len(times) : times[i] <= x }) > k

\* C11: for a non-empty sample list of length n the reported p95 and p99
\* are the samples at 0-based index min(floor(n * p), n - 1) of the
\* ascending order, one of the samples each (no interpolation); for the
\* samples 0..99 they are 95 and 99, and for n = 1000 the index of p99 is 990.
C11_NearestRank ==
    /\ PercentileIndex(1000, 99) = 990
    /\ (pc = "statsdone" /\ Len(durs) >= 1) =>
           LET n == Len(durs)
           IN  /\ cur.kind = "ext"
               /\ IsAtRank(durs, cur.p95_time, Min((n * 95) \div 100, n - 1))
               /\ IsAtRank(durs, cur.p99_time, Min((n * 99) \div 100, n - 1))
               /\ durs = [i \in 1 .. 100 |-> i - 1] =>
                      (cur.p95_time = 95 /\ cur.p99_time = 99)

\* The percentiles of a shuffled list of 101 different samples, where both
\* lie below the largest sample.
C11_Witness ==
    /\ pc = "statsdone"
    /\ Len(durs) = 101
    /\ durs[2] = 7
    /\ cur.p95_time = 95
    /\ cur.p99_time = 99

\* ---------------------------------------------------------------- claims, timed loops

\* The ids a list of targets holds.
Range(sq) == { sq[i] : i \in 1 .. Len(sq) }

\* C12: an INSERT, SELECT or UPDATE loop that returns has made exactly
\* count timed operations and collected exactly count samples (INSERT has
\* added count rows); the DELETE loop walks min(count, r) different ids of
\* rows that existed when it started, r the rows of the table then, deletes
\* exactly these rows and collects one sample per id.
C12_SampleSetSizes ==
    pc = "opdone" =>
       LET r == Cardinality(rows0[1])
           returned == cur.stats.kind = "stats"
       IN  /\ (cur.op = "insert" /\ returned) =>
                  /\ cur.stats.n = opCount
                  /\ Cardinality(rows[1] \ rows0[1]) = opCount
                  /\ rows0[1] \subseteq rows[1]
           /\ (cur.op \in {"select_by_id", "update_by_id"} /\ returned) =>
                  /\ cur.stats.n = opCount
                  /\ Len(targets) = opCount
                  /\ rows[1] = rows0[1]
           /\ cur.op = "delete_by_id" =>
                  /\ Len(targets) = Min(opCount, r)
                  /\ Cardinality(Range(targets)) = Len(targets)
                  /\ Range(targets) \subseteq rows0[1]
                  /\ rows[1] = rows0[1] \ Range(targets)
                  /\ returned => cur.stats.n = Min(opCount, r)

\* A DELETE loop asked for more operations than the table has rows.
C12_Witness ==
    /\ pc = "opdone"
    /\ cur.op = "delete_by_id"
    /\ Cardinality(rows0[1]) = 1
    /\ opCount = 2
    /\ cur.stats.kind = "stats"
    /\ cur.stats.n = 1
    /\ rows[1] = {}

\* ---------------------------------------------------------------- claims, progress and batches

\* C13: a fill_table run that completes after inserting m rows, from any
\* starting row count and with any batch size, has emitted at least
\* floor(m / period) progress lines, period the 100,000 rows of the code.
C13_ProgressLines ==
    \A t \in Tables :
        Filled(t) =>
           progress[t] >=
              (Cardinality(rows[t]) - Cardinality(rows0[t])) \div ProgressEvery

\* ---------------------------------------------------------------- claims, phases

\* C14: in a pass of test_table the phases run in the order INSERT, SELECT,
\* UPDATE, DELETE; the bound the SELECT and UPDATE phases draw ids from is
\* the largest id present after the INSERT phase, so the inserted ids are
\* eligible and every id these phases address lies in 1 .. max_id; every
\* id the SELECT phase addresses is the id of a row of the table.
C14_PhaseOrderAndIdBound ==
    LET t == tableIdx
        done(f) == cur[f] # None
    IN  /\ pc = "insert" =>
              ~ done("insert") /\ ~ done("select_by_id")
              /\ ~ done("update_by_id") /\ ~ done("delete_by_id")
        /\ pc = "select" =>
              /\ done("insert") /\ ~ done("select_by_id")
              /\ ~ done("update_by_id") /\ ~ done("delete_by_id")
              /\ max_id = MaxOf(rows[t])
              /\ InsertedIds(t) \subseteq 1 .. max_id
        /\ pc \in {"selected", "update"} =>
              /\ done("insert") /\ done("select_by_id")
              /\ ~ done("update_by_id") /\ ~ done("delete_by_id")
              /\ max_id = MaxOf(rows[t])
        /\ pc = "selected" =>
              /\ Len(targets) = opCount
              /\ Range(targets) \subseteq 1 .. max_id
              /\ Range(targets) \subseteq rows[t]
        /\ pc \in {"updated", "delete"} =>
              /\ done("insert") /\ done("select_by_id")
              /\ done("update_by_id") /\ ~ done("delete_by_id")
              /\ max_id = MaxOf(rows[t])
        /\ pc = "updated" =>
              /\ Len(targets) = opCount
              /\ Range(targets) \subseteq 1 .. max_id

\* A step of the run is a batch of fill_table: one pass of its while loop.
BatchStep == pc = "fill" /\ batches' = batches + 1

\* What holds after every commit of a run, for every table.
FillBounds ==
    \A t \in Tables :
        LET k == Cardinality(rows0[t])
        IN  /\ Cardinality(rows[t]) >= k
            /\ k <= RECORDS_COUNT => Cardinality(rows[t]) <= RECORDS_COUNT
            /\ (k >= RECORDS_COUNT /\ fillLog[t] = "filling") =>
                   (rows[t] = rows0[t] /\ seq[t] = seq0[t])

\* C15: at every commit of a run, whatever the starting row count and
\* skip_if_exists, no table holds fewer rows than at the start, a table that
\* started with at most N rows holds at most N, and a table that started
\* with N rows or more and was not skipped is as it was; every batch commits
\* between 1 and batch_size rows.
C15_FillInvariant ==
    /\ [] FillBounds
    /\ [][BatchStep =>
             LET t == tableIdx
                 d == Cardinality(rows'[t]) - Cardinality(rows[t])
             IN  /\ d \in 1 .. batch_size
                 /\ rows[t] \subseteq rows'[t]
                 /\ total_inserted' = total_inserted + d]_vars

\* A resumed run of two batches, the last one smaller than batch_size,
\* that ends with exactly N rows.
C15_Witness ==
    /\ pc = "fill"
    /\ ~ skip_existing
    /\ current_count = 1
    /\ batch_size = 2
    /\ batches = 2
    /\ total_inserted = RECORDS_COUNT
    /\ Cardinality(rows[tableIdx]) = RECORDS_COUNT
    /\ rows0[tableIdx] \subseteq rows[tableIdx]

====
